---- MODULE Spec2Model ----
(***************************************************************************)
(* Model of serializable_excel: the write path of ExcelWriter (layout,     *)
(* rows, grid writers), the public ExcelModel.to_excel / from_excel entry  *)
(* points and the sheet readers of excel_io.                               *)
(***************************************************************************)
EXTENDS Integers, Sequences, FiniteSets, TLC

VARIABLES fs, singletons, heap, threads, out

vars == <<fs, singletons, heap, threads, out>>

\* ------------------------------------------------------------------ bounds
\* Longest batch of instances a call is given.
MaxInstances == 2

\* Most data rows of a grid given to write_excel directly.
MaxGridRows == 2

\* Threads that enter _get_reader / _get_writer concurrently.
MaxThreads == 2

\* ------------------------------------------------------------- basic values
\* Python's None.
None == "<None>"

\* The empty dict.
EmptyMap == [k \in {} |-> None]

\* dict[k] = v on a dict held as a function (an existing key is overwritten).
Put(d, k, v) == [x \in DOMAIN d \cup {k} |-> IF x = k THEN v ELSE d[x]]

\* dict.get(k): None for a missing key.
Get(d, k) == IF k \in DOMAIN d THEN d[k] ELSE None

\* dict.update(e): e's entries win.
Update(d, e) == [x \in DOMAIN d \cup DOMAIN e |-> IF x \in DOMAIN e THEN e[x] ELSE d[x]]

Range(f) == {f[x] : x \in DOMAIN f}

\* Every header string of the model, in Python's str order (code points, a
\* proper prefix first).
StrOrder == <<"Alpha", "Manager", "Month", "Note", "Zebra", "Zebra ">>

StrIndex(s) == CHOOSE i \in DOMAIN StrOrder : StrOrder[i] = s

\* a < b on str.
StrLt(a, b) == StrIndex(a) < StrIndex(b)

\* str.strip() on the header strings of the model.
Strip(s) == IF s = "Zebra " THEN "Zebra" ELSE s

\* ------------------------------------------------------------ record types
\* The record types the calls are made on: ForecastModel as the tests declare
\* it (two static columns and a dynamic column), NoteModel with one optional
\* static column and no dynamic column.
Classes == {"ForecastModel", "NoteModel"}

\* FieldMetadataExtractor.get_column_fields: field name and Column descriptor
\* in declaration order.
get_column_fields(cls) ==
    IF cls = "ForecastModel"
    THEN << [name |-> "month", header |-> "Month", required |-> TRUE,
             default |-> None, nullable |-> FALSE, excel_type |-> "TEXT",
             getter_cell_color |-> "none"],
            [name |-> "manager", header |-> "Manager", required |-> TRUE,
             default |-> None, nullable |-> FALSE, excel_type |-> None,
             getter_cell_color |-> "none"] >>
    ELSE << [name |-> "note", header |-> "Note", required |-> FALSE,
             default |-> None, nullable |-> TRUE, excel_type |-> None,
             getter_cell_color |-> "highlight"] >>

\* FieldMetadataExtractor.get_dynamic_column_field: the DynamicColumn
\* descriptor (its attribute name), or None.
get_dynamic_column_field(cls) ==
    IF cls = "ForecastModel" THEN "characteristics" ELSE None

\* Keys a dynamic mapping may carry. "Manager" is also a static header of
\* ForecastModel; "Zebra " carries trailing white space.
Keys == {"Alpha", "Manager", "Zebra "}

DynValues == {"150"}

\* The key sets one instance's dynamic mapping may have.
KeySets == {{}, {"Alpha"}, {"Manager"}, {"Zebra "}, {"Alpha", "Manager"}}

DynMaps == UNION {[S -> DynValues] : S \in KeySets}

\* The instances of a record type.
Instances(cls) ==
    IF cls = "ForecastModel"
    THEN {[cls |-> cls, vals |-> [month |-> "Jan", manager |-> "Ann"], dyn |-> d] :
            d \in DynMaps}
    ELSE {[cls |-> cls, vals |-> [note |-> v], dyn |-> EmptyMap] :
            v \in {None, "memo"}}

\* The lists of instances a call may be given.
Batches(cls) == UNION {[1..n -> Instances(cls)] : n \in 0..MaxInstances}

\* Destinations a caller passes as file_path.
Paths == {"out.xlsx"}

FilePaths == Paths \cup {None, ""}

\* The iteration orders a Python set over Keys may have.
HashOrders == {p \in [1..Cardinality(Keys) -> Keys] : Range(p) = Keys}

\* ------------------------------------------------------------------ layout
\* Iterating a set: its elements in the order hash gives them.
RECURSIVE IterSet(_, _)
IterSet(S, hash) ==
    IF hash = <<>> THEN <<>>
    ELSE (IF Head(hash) \in S THEN <<Head(hash)>> ELSE <<>>) \o IterSet(S, Tail(hash))

\* Insert x into an ascending list.
RECURSIVE Insert(_, _)
Insert(x, s) ==
    IF s = <<>> THEN <<x>>
    ELSE IF StrLt(x, Head(s)) THEN <<x>> \o s
    ELSE <<Head(s)>> \o Insert(x, Tail(s))

\* sorted left out: the keys in the order the set yields them.
unsorted(s) == s

\* sorted(iterable) on str.
RECURSIVE sorted(_)
sorted(s) == IF s = <<>> THEN <<>> ELSE Insert(Head(s), sorted(Tail(s)))

\* The keys of the first instance alone.
collect_first_only(instances, dynamic_field) ==
    IF instances = <<>> THEN {} ELSE DOMAIN Head(instances).dyn

\* ExcelWriter._collect_dynamic_keys: the union, over the instances in order,
\* of the keys of each instance's dynamic dict.
RECURSIVE collect_dynamic_keys(_, _)
collect_dynamic_keys(instances, dynamic_field) ==
    IF instances = <<>> THEN {}
    ELSE DOMAIN Head(instances).dyn
           \cup collect_dynamic_keys(Tail(instances), dynamic_field)

\* The two loops of _build_headers: headers[h] = col_idx; col_idx += 1.
RECURSIVE AddHeaders(_, _, _)
AddHeaders(headers, col_idx, hs) ==
    IF hs = <<>> THEN headers
    ELSE AddHeaders(Put(headers, Head(hs), col_idx), col_idx + 1, Tail(hs))

StaticHeaders(column_fields) ==
    [i \in DOMAIN column_fields |-> column_fields[i].header]

\* The static loop alone: no header for any dynamic key.
build_static_headers(column_fields, dynamic_field, instances, hash) ==
    AddHeaders(EmptyMap, 1, StaticHeaders(column_fields))

\* ExcelWriter._build_headers.
build_headers(column_fields, dynamic_field, instances, hash) ==
    LET static == AddHeaders(EmptyMap, 1, StaticHeaders(column_fields))
    IN  IF dynamic_field # None
        THEN AddHeaders(static, Len(column_fields) + 1,
                 sorted(IterSet(collect_dynamic_keys(instances, dynamic_field), hash)))
        ELSE static

\* -------------------------------------------------------------------- rows
\* FieldExtractor.extract_static_field_value: the attribute's value.
extract_static_field_value(instance, field_name, column) ==
    instance.vals[field_name]

\* FieldExtractor.extract_dynamic_field_value: a slot for every key of the
\* closed key set, blank where the instance does not carry the key.
extract_dynamic_field_value(instance, dynamic_field, all_dynamic_keys) ==
    [k \in all_dynamic_keys |-> Get(instance.dyn, k)]

RECURSIVE StaticRow(_, _, _)
StaticRow(row_data, instance, column_fields) ==
    IF column_fields = <<>> THEN row_data
    ELSE StaticRow(Put(row_data, Head(column_fields).header,
                       extract_static_field_value(instance, Head(column_fields).name,
                                                  Head(column_fields))),
                   instance, Tail(column_fields))

\* A row with the instance's own dynamic keys only, no slot for the others.
build_row_unpadded(instance, column_fields, dynamic_field, all_dynamic_keys) ==
    LET static == StaticRow(EmptyMap, instance, column_fields)
    IN  IF dynamic_field # None THEN Update(static, instance.dyn) ELSE static

\* One pass of the loop of _build_data_rows.
build_row(instance, column_fields, dynamic_field, all_dynamic_keys) ==
    LET static == StaticRow(EmptyMap, instance, column_fields)
    IN  IF dynamic_field # None
        THEN Update(static,
                 extract_dynamic_field_value(instance, dynamic_field, all_dynamic_keys))
        ELSE static

\* The rows in the reverse of the instances' order.
build_data_rows_reversed(instances, column_fields, dynamic_field, headers) ==
    [i \in DOMAIN instances |->
        build_row(instances[Len(instances) + 1 - i], column_fields, dynamic_field,
                  IF dynamic_field # None
                  THEN collect_dynamic_keys(instances, dynamic_field) ELSE {})]

\* ExcelWriter._build_data_rows.
build_data_rows(instances, column_fields, dynamic_field, headers) ==
    LET all_dynamic_keys ==
            IF dynamic_field # None
            THEN collect_dynamic_keys(instances, dynamic_field) ELSE {}
    IN  [i \in DOMAIN instances |->
            build_row(instances[i], column_fields, dynamic_field, all_dynamic_keys)]

\* ------------------------------------------------------ styles and types
\* A column's style function applied to one cell (StyleResolver): a style, or
\* None for "no override".
resolve_style(style_fn, cell_value, row_data, column_name, row_index) ==
    IF style_fn = "highlight" /\ cell_value # None THEN "WARNING" ELSE None

\* The style function of a header: the static column's, else the dynamic
\* column's (ForecastModel's dynamic column declares none).
StyleFnOf(column_fields, header) ==
    IF \E i \in DOMAIN column_fields : column_fields[i].header = header
    THEN column_fields[CHOOSE i \in DOMAIN column_fields :
                          column_fields[i].header = header].getter_cell_color
    ELSE "none"

\* ColorExtractor.build_cell_colors: (sheet row, column position) -> style,
\* only for the cells whose style function gives a style. Data row i is sheet
\* row i + 1.
build_cell_colors(data_rows, column_fields, dynamic_field, all_dynamic_keys, headers) ==
    LET cells == {<<i + 1, headers[h]>> : i \in DOMAIN data_rows, h \in DOMAIN headers}
        HeaderAt(c) == CHOOSE h \in DOMAIN headers : headers[h] = c
        StyleAt(rc) ==
            resolve_style(StyleFnOf(column_fields, HeaderAt(rc[2])),
                          Get(data_rows[rc[1] - 1], HeaderAt(rc[2])),
                          data_rows[rc[1] - 1], HeaderAt(rc[2]), rc[1])
    IN  [rc \in {x \in cells : StyleAt(x) # None} |-> StyleAt(rc)]

\* DynamicColumn.get_excel_type: the type hint of a dynamic key, or None.
get_excel_type(key) == IF key = "Alpha" THEN "NUMBER" ELSE None

\* ExcelWriter._build_column_types.
build_column_types(column_fields, dynamic_field, all_dynamic_keys) ==
    LET typed == {i \in DOMAIN column_fields : column_fields[i].excel_type # None}
        static == [h \in {column_fields[i].header : i \in typed} |->
                     column_fields[CHOOSE i \in typed :
                                     column_fields[i].header = h].excel_type]
    IN  IF dynamic_field # None
        THEN Update(static,
                 [k \in {x \in all_dynamic_keys : get_excel_type(x) # None} |->
                     get_excel_type(k)])
        ELSE static

\* --------------------------------------------------------------- the sheet
\* A sheet: the value of every cell that was created, and the style of the
\* cells that were given one.
NoSheet == [exists |-> FALSE, cells |-> EmptyMap, styles |-> EmptyMap]

CellValue(ws, r, c) == Get(ws.cells, <<r, c>>)

\* The loops of write_excel: the header row, then a cell per data row and
\* header; a style only where cell_colors has one for the cell's address.
fill_sheet(headers, data_rows, cell_colors) ==
    LET cols == Range(headers)
        HeaderAt(c) == CHOOSE h \in DOMAIN headers : headers[h] = c
        rows == {i + 1 : i \in DOMAIN data_rows}
        addr == ({1} \X cols) \cup (rows \X cols)
    IN  [exists |-> TRUE,
         cells  |-> [rc \in addr |->
                       IF rc[1] = 1 THEN HeaderAt(rc[2])
                       ELSE Get(data_rows[rc[1] - 1], HeaderAt(rc[2]))],
         styles |-> [rc \in {x \in rows \X cols : Get(cell_colors, x) # None} |->
                       cell_colors[rc]]]

\* Workbook.save then load_workbook: a cell with neither a value nor a style
\* is not stored.
save(ws) ==
    [exists |-> TRUE,
     cells  |-> [rc \in {x \in DOMAIN ws.cells :
                           ws.cells[x] # None \/ x \in DOMAIN ws.styles} |->
                   ws.cells[rc]],
     styles |-> ws.styles]

\* The sheet without any style override.
write_excel_unstyled(headers, data_rows, file_path, cell_colors) ==
    save(fill_sheet(headers, data_rows, EmptyMap))

\* write_excel: the sheet saved at file_path.
write_excel(headers, data_rows, file_path, cell_colors) ==
    save(fill_sheet(headers, data_rows, cell_colors))

\* write_excel_to_bytes: the same sheet, saved to memory and returned.
write_excel_to_bytes(headers, data_rows, cell_colors, column_types) ==
    save(fill_sheet(headers, data_rows, cell_colors))

\* Worksheet.max_row / max_column (1 for an empty sheet).
SetMax(S) == CHOOSE m \in S : \A x \in S : x <= m

max_row(ws) == SetMax({1} \cup {rc[1] : rc \in DOMAIN ws.cells})

max_column(ws) == SetMax({1} \cup {rc[2] : rc \in DOMAIN ws.cells})

\* read_excel_headers: column -> str(value).strip() for the header cells that
\* hold a value.
read_excel_headers(ws) ==
    [c \in {x \in 1..max_column(ws) : CellValue(ws, 1, x) # None} |->
        Strip(CellValue(ws, 1, c))]

\* One row of read_excel_rows: column -> value for the cells holding a value.
read_row(ws, row_num) ==
    [c \in {x \in 1..max_column(ws) : CellValue(ws, row_num, x) # None} |->
        CellValue(ws, row_num, c)]

\* read_excel_rows from row_num on: only the rows with at least one value.
RECURSIVE read_rows_from(_, _)
read_rows_from(ws, row_num) ==
    IF row_num > max_row(ws) THEN <<>>
    ELSE (IF read_row(ws, row_num) # EmptyMap THEN <<read_row(ws, row_num)>> ELSE <<>>)
            \o read_rows_from(ws, row_num + 1)

\* Every sheet row from row 2 on, the blank ones as empty mappings.
read_every_row(ws) == [i \in 1..(max_row(ws) - 1) |-> read_row(ws, i + 1)]

\* read_excel_rows with start_row = 2 and max_row = None.
read_excel_rows(ws) == read_rows_from(ws, 2)

\* ------------------------------------------------------------ ExcelWriter
\* What a call leaves behind: its arguments, how it ended, the stages it ran
\* and what they built, and what it returned.
NoBytes == [kind |-> "None", wb |-> NoSheet]

\* No reader or writer instance.
NoInstance == [cls |-> None, kind |-> None, n |-> 0]

Blank ==
    [op |-> "none", cls |-> None, instances |-> <<>>, file_path |-> None,
     return_bytes |-> FALSE, kwargs |-> {}, column_order |-> EmptyMap,
     dynamic_column_order |-> EmptyMap,
     outcome |-> "none", error |-> None, steps |-> <<>>,
     headers |-> EmptyMap, data_rows |-> <<>>, all_dynamic_keys |-> {},
     cell_colors |-> EmptyMap, column_types |-> EmptyMap, returned |-> NoBytes,
     source |-> None, passed |-> FALSE, dynamic_columns |-> FALSE,
     records |-> <<>>, origin |-> <<>>,
     collects |-> <<>>, via |-> NoInstance, found |-> FALSE]

\* The empty-list check alone: the destination check left out.
usage_error_without_path_check(instances, file_path, return_bytes) ==
    IF instances = <<>> THEN "Cannot export empty list of instances" ELSE None

\* The two checks write opens with: the message of the ValueError raised, or
\* None when both pass.
usage_error(instances, file_path, return_bytes) ==
    IF instances = <<>> THEN "Cannot export empty list of instances"
    ELSE IF ~return_bytes /\ file_path \in {None, ""}
    THEN "file_path is required when return_bytes=False"
    ELSE None

\* The calls of _collect_dynamic_keys one write makes, in order, each with the
\* set it returned: one in _build_headers, one in _build_data_rows, one in
\* write itself; none for a type without a dynamic column.
collect_calls(instances, dynamic_field) ==
    IF dynamic_field = None THEN <<>>
    ELSE [i \in 1..3 |-> collect_dynamic_keys(instances, dynamic_field)]

\* ExcelWriter.write.
write(model_class, instances, file_path, return_bytes, hash) ==
    LET call == [Blank EXCEPT !.op = "write", !.cls = model_class,
                              !.instances = instances, !.file_path = file_path,
                              !.return_bytes = return_bytes]
        column_fields == get_column_fields(model_class)
        dynamic_field == get_dynamic_column_field(model_class)
        headers == build_headers(column_fields, dynamic_field, instances, hash)
        data_rows == build_data_rows(instances, column_fields, dynamic_field, headers)
        all_dynamic_keys ==
            IF dynamic_field # None
            THEN collect_dynamic_keys(instances, dynamic_field) ELSE {}
        cell_colors == build_cell_colors(data_rows, column_fields, dynamic_field,
                                         all_dynamic_keys, headers)
        column_types == build_column_types(column_fields, dynamic_field, all_dynamic_keys)
        built == [call EXCEPT
                    !.steps = <<"get_column_fields", "get_dynamic_column_field",
                                "_build_headers", "_build_data_rows",
                                "build_cell_colors", "_build_column_types">>,
                    !.headers = headers, !.data_rows = data_rows,
                    !.all_dynamic_keys = all_dynamic_keys,
                    !.collects = collect_calls(instances, dynamic_field),
                    !.cell_colors = cell_colors, !.column_types = column_types]
    IN  IF usage_error(instances, file_path, return_bytes) # None
        THEN [call EXCEPT !.outcome = "ValueError",
                          !.error = usage_error(instances, file_path, return_bytes)]
        ELSE IF column_fields = <<>>
        THEN [call EXCEPT !.outcome = "ValueError",
                          !.error = "No Column fields defined in model",
                          !.steps = <<"get_column_fields">>]
        ELSE IF return_bytes
        THEN [built EXCEPT !.outcome = "ok",
                           !.steps = @ \o <<"write_excel_to_bytes">>,
                           !.returned =
                               [kind |-> "bytes",
                                wb |-> write_excel_to_bytes(headers, data_rows,
                                                            cell_colors, column_types)]]
        \* write_excel (excel_io.py) declares no column_types parameter: the
        \* call with column_types=... raises before write_excel's body runs.
        ELSE [built EXCEPT !.outcome = "TypeError",
                           !.error = "write_excel() got an unexpected keyword argument 'column_types'"]

\* ------------------------------------------------------------- ExcelModel
\* Keyword arguments a caller may add to to_excel that its signature
\* (cls, instances, file_path) does not declare.
ExtraKwargs == {"return_bytes", "column_order", "dynamic_column_order"}

\* The keyword arguments of one call: the extra keywords it names and the rank
\* hints it passes (header -> rank, a header left out is unranked).
Kwargs(names, column_order, dynamic_column_order) ==
    [kwargs |-> names, column_order |-> column_order,
     dynamic_column_order |-> dynamic_column_order]

KwargBundles ==
    { Kwargs({}, EmptyMap, EmptyMap),
      Kwargs({"return_bytes"}, EmptyMap, EmptyMap),
      Kwargs({"column_order", "dynamic_column_order"},
             [h \in {"Manager", "Month"} |-> 1], [k \in {"Alpha", "Zebra "} |-> 1]),
      Kwargs({"column_order"}, [h \in {"Manager"} |-> 5], EmptyMap),
      Kwargs({"column_order"},
             [h \in {"Manager", "Month"} |-> IF h = "Manager" THEN 1 ELSE 2], EmptyMap),
      Kwargs({"column_order"},
             [h \in {"Manager", "Month"} |-> IF h = "Manager" THEN 10 ELSE 20], EmptyMap),
      Kwargs({"dynamic_column_order"}, EmptyMap,
             [k \in {"Alpha", "Zebra "} |-> IF k = "Alpha" THEN 7 ELSE 3]) }

\* The kinds of cached instance: the keys "reader" and "writer".
Kinds == {"reader", "writer"}

\* The objects the cache refers to. dicts: the per-class dicts ever created,
\* each named by its class and the number of its creation, with its items.
\* made: how many instances of each kind were constructed for each class.
EmptyHeap == [dicts |-> EmptyMap, made |-> [ck \in Classes \X Kinds |-> 0]]

\* The {} of line 35: a dict that did not exist before.
new_dict(h, cls) ==
    [cls |-> cls, n |-> Cardinality({d \in DOMAIN h.dicts : d.cls = cls}) + 1]

\* ExcelReader(...) / ExcelWriter(...): an instance that did not exist before.
new_instance(h, cls, kind) == [cls |-> cls, kind |-> kind, n |-> h.made[<<cls, kind>>] + 1]

\* _singletons[cls] = {} (line 35).
install_dict(cache, h, cls) ==
    [cache |-> Put(cache, cls, new_dict(h, cls)),
     heap  |-> [h EXCEPT !.dicts = Put(@, new_dict(h, cls), EmptyMap)]]

\* singletons[kind] = <new instance> on the dict d (lines 43-45, 53-60).
create_instance(h, d, cls, kind) ==
    [h EXCEPT !.dicts = Put(@, d, Put(h.dicts[d], kind, new_instance(h, cls, kind))),
              !.made = [@ EXCEPT ![<<cls, kind>>] = @ + 1]]

\* ExcelModel._get_singletons, run without interruption: the cache and heap it
\* leaves and the dict it returns.
get_singletons(cache, h, cls) ==
    LET s == IF cls \notin DOMAIN cache THEN install_dict(cache, h, cls)
             ELSE [cache |-> cache, heap |-> h]
    IN  [cache |-> s.cache, heap |-> s.heap, dict |-> s.cache[cls]]

\* A fresh instance on every access: the "not in" test of _get_reader /
\* _get_writer left out.
get_singleton_uncached(cache, h, cls, kind) ==
    LET s == get_singletons(cache, h, cls)
    IN  [cache |-> s.cache, heap |-> create_instance(s.heap, s.dict, cls, kind),
         instance |-> new_instance(s.heap, cls, kind), found |-> FALSE]

\* ExcelModel._get_reader / _get_writer, run without interruption: the
\* per-class dict gets a new instance under kind only when it holds none; the
\* instance under kind is returned.
get_singleton(cache, h, cls, kind) ==
    LET s == get_singletons(cache, h, cls)
    IN  IF kind \in DOMAIN s.heap.dicts[s.dict]
        THEN [cache |-> s.cache, heap |-> s.heap,
              instance |-> s.heap.dicts[s.dict][kind], found |-> TRUE]
        ELSE [cache |-> s.cache, heap |-> create_instance(s.heap, s.dict, cls, kind),
              instance |-> new_instance(s.heap, cls, kind), found |-> FALSE]

\* ExcelModel.to_excel(cls, instances, file_path). A call that names a keyword
\* the signature lacks, or gives no file_path, raises TypeError when the
\* arguments are bound: no statement of the body runs.
BindsToExcel(has_path, kwargs) == kwargs = {} /\ has_path

to_excel(cls, instances, has_path, file_path, kwargs, column_order, dynamic_column_order, hash) ==
    IF ~BindsToExcel(has_path, kwargs)
    THEN [Blank EXCEPT !.op = "to_excel", !.cls = cls, !.instances = instances,
                       !.file_path = IF has_path THEN file_path ELSE None,
                       !.return_bytes = "return_bytes" \in kwargs,
                       !.kwargs = kwargs, !.column_order = column_order,
                       !.dynamic_column_order = dynamic_column_order,
                       !.outcome = "TypeError",
                       !.error = IF kwargs # {}
                                 THEN "to_excel() got an unexpected keyword argument"
                                 ELSE "to_excel() missing 1 required positional argument: 'file_path'"]
    ELSE [write(cls, instances, file_path, FALSE, hash) EXCEPT !.op = "to_excel"]

\* ------------------------------------------------------------ ExcelReader
\* header -> column from read_excel_headers' column -> header (a header held
\* by two columns keeps the last).
header_map(by_col) ==
    [h \in Range(by_col) |-> SetMax({c \in DOMAIN by_col : by_col[c] = h})]

\* The static values of one row: the cell under the column's header, the
\* declared default when the header is missing.
static_values(column_fields, hm, row) ==
    [n \in {column_fields[i].name : i \in DOMAIN column_fields} |->
        LET col == column_fields[CHOOSE i \in DOMAIN column_fields :
                                   column_fields[i].name = n]
        IN  IF col.header \in DOMAIN hm THEN Get(row, hm[col.header])
            ELSE col.default]

\* Collection whatever allow_dynamic says.
dynamic_values_always(column_fields, dynamic_field, hm, row, allow_dynamic) ==
    IF dynamic_field # None
    THEN [h \in DOMAIN hm \ Range(StaticHeaders(column_fields)) |-> Get(row, hm[h])]
    ELSE EmptyMap

\* The headers no static column claims, collected when dynamic collection is
\* enabled and the type declares a dynamic column.
dynamic_values(column_fields, dynamic_field, hm, row, allow_dynamic) ==
    IF allow_dynamic /\ dynamic_field # None
    THEN [h \in DOMAIN hm \ Range(StaticHeaders(column_fields)) |-> Get(row, hm[h])]
    ELSE EmptyMap

\* The check for required columns left out: none is ever reported missing.
no_missing_required(column_fields, hm) == {}

\* Required static columns whose header the grid lacks, in declaration order.
missing_required(column_fields, hm) ==
    {i \in DOMAIN column_fields :
        column_fields[i].required /\ column_fields[i].header \notin DOMAIN hm}

\* Record construction rejects None for a field that is not Optional.
construct_fails(column_fields, vals) ==
    \E i \in DOMAIN column_fields :
        ~column_fields[i].nullable /\ vals[column_fields[i].name] = None

\* A read that hands back the records built before the failing row.
RECURSIVE assemble_partial(_, _, _, _, _, _)
assemble_partial(call, column_fields, dynamic_field, hm, rows, done) ==
    IF rows = <<>> THEN [call EXCEPT !.outcome = "ok", !.records = done]
    ELSE IF missing_required(column_fields, hm) # {}
    THEN [call EXCEPT !.outcome = "ColumnNotFoundError", !.records = done]
    ELSE LET vals == static_values(column_fields, hm, Head(rows))
             dyn == dynamic_values(column_fields, dynamic_field, hm, Head(rows),
                                   call.dynamic_columns)
         IN  IF construct_fails(column_fields, vals)
             THEN [call EXCEPT !.outcome = "ValidationError", !.records = done]
             ELSE assemble_partial(call, column_fields, dynamic_field, hm, Tail(rows),
                      Append(done, [cls |-> call.cls, vals |-> vals, dyn |-> dyn]))

\* ExcelReader.read on a loaded sheet: rows in order, the first failing row
\* aborts the read.
RECURSIVE assemble(_, _, _, _, _, _)
assemble(call, column_fields, dynamic_field, hm, rows, done) ==
    IF rows = <<>> THEN [call EXCEPT !.outcome = "ok", !.records = done]
    ELSE IF missing_required(column_fields, hm) # {}
    THEN [call EXCEPT !.outcome = "ColumnNotFoundError",
             !.error = column_fields[CHOOSE i \in missing_required(column_fields, hm) :
                          \A j \in missing_required(column_fields, hm) : i <= j].header]
    ELSE LET vals == static_values(column_fields, hm, Head(rows))
             dyn == dynamic_values(column_fields, dynamic_field, hm, Head(rows),
                                   call.dynamic_columns)
         IN  IF construct_fails(column_fields, vals)
             THEN [call EXCEPT !.outcome = "ValidationError"]
             ELSE assemble(call, column_fields, dynamic_field, hm, Tail(rows),
                           Append(done, [cls |-> call.cls, vals |-> vals, dyn |-> dyn]))

\* ExcelReader.read: load the sheet, read its headers and rows, assemble.
read(cls, ws, dynamic_columns, origin) ==
    LET call == [Blank EXCEPT !.op = "from_excel", !.cls = cls,
                              !.dynamic_columns = dynamic_columns, !.origin = origin]
    IN  IF ~ws.exists THEN [call EXCEPT !.outcome = "FileNotFoundError"]
        ELSE assemble([call EXCEPT !.headers = header_map(read_excel_headers(ws)),
                                   !.data_rows = read_excel_rows(ws)],
                      get_column_fields(cls), get_dynamic_column_field(cls),
                      header_map(read_excel_headers(ws)), read_excel_rows(ws), <<>>)

\* ExcelModel.from_excel(file_path, dynamic_columns=False): the argument as the
\* reader gets it, False when the caller leaves it out.
\* The cached reader's read.
from_excel(cls, ws, passed, dynamic_columns, origin) ==
    [read(cls, ws, passed /\ dynamic_columns, origin) EXCEPT !.passed = passed]

\* What a caller may give for dynamic_columns: <<passed, value>>.
DynamicColumnsArgs == {<<FALSE, FALSE>>, <<TRUE, FALSE>>, <<TRUE, TRUE>>}

\* ------------------------------------------------------------------ inputs
\* Grids given to write_excel directly.
GridHeaders ==
    { [h \in {"Note"} |-> 1],
      [h \in {"Month", "Manager"} |-> IF h = "Month" THEN 1 ELSE 3] }

GridRows ==
    { [h \in {"Note"} |-> "memo"],
      [h \in {"Month", "Alpha"} |-> IF h = "Month" THEN "Jan" ELSE "150"] }

\* Style maps: none; one cell; one with a None entry, an entry for a column no
\* header has and an entry for the third sheet row.
GridColors ==
    { EmptyMap,
      [rc \in {<<2, 1>>} |-> "WARNING"],
      [rc \in {<<2, 1>>, <<2, 2>>, <<3, 3>>} |-> IF rc = <<2, 1>> THEN None ELSE "WARNING"] }

GridData == UNION {[1..n -> GridRows] : n \in 0..MaxGridRows}

\* ----------------------------------------------------------------- actions
\* fs: the sheet stored under each path. singletons: the module-level
\* _singletons dict, class -> the dict it holds. heap: the dicts and instances
\* created so far. threads: where each thread stands in _get_reader /
\* _get_writer. out: the result of the caller's last call, Blank once the
\* caller has dropped it.
Threads == 1..MaxThreads

Idle == [pc |-> "idle", cls |-> None, kind |-> None,
         dict |-> [cls |-> None, n |-> 0], got |-> NoInstance]

Init ==
    /\ fs = [p \in Paths |-> NoSheet]
    /\ singletons = EmptyMap
    /\ heap = EmptyHeap
    /\ threads = [t \in Threads |-> Idle]
    /\ out = Blank

\* A call of ExcelWriter.write.
Write ==
    \E cls \in Classes :
    \E instances \in Batches(cls), file_path \in FilePaths,
       return_bytes \in BOOLEAN, hash \in HashOrders :
        /\ out = Blank
        /\ out' = write(cls, instances, file_path, return_bytes, hash)
        /\ UNCHANGED <<fs, singletons, heap, threads>>

\* A call of ExcelModel.to_excel whose arguments do not fit the signature.
ToExcelUnbound ==
    \E cls \in Classes :
    \E instances \in Batches(cls), has_path \in BOOLEAN, kw \in KwargBundles :
        /\ out = Blank
        /\ ~BindsToExcel(has_path, kw.kwargs)
        /\ out' = to_excel(cls, instances, has_path, "out.xlsx", kw.kwargs,
                           kw.column_order, kw.dynamic_column_order, <<>>)
        /\ UNCHANGED <<fs, singletons, heap, threads>>

\* A call of ExcelModel.to_excel(instances, file_path).
ToExcel ==
    \E cls \in Classes :
    \E instances \in Batches(cls), file_path \in FilePaths, hash \in HashOrders :
        LET w == get_singleton(singletons, heap, cls, "writer")
        IN  /\ out = Blank
            /\ singletons' = w.cache
            /\ heap' = w.heap
            /\ out' = [to_excel(cls, instances, TRUE, file_path, {}, EmptyMap, EmptyMap, hash)
                         EXCEPT !.via = w.instance, !.found = w.found]
            /\ UNCHANGED <<fs, threads>>

\* A call of excel_io.write_excel.
WriteExcel ==
    \E headers \in GridHeaders, data_rows \in GridData, file_path \in Paths,
       cell_colors \in GridColors :
        /\ out = Blank
        /\ fs' = [fs EXCEPT ![file_path] =
                     write_excel(headers, data_rows, file_path, cell_colors)]
        /\ out' = [Blank EXCEPT !.op = "write_excel", !.headers = headers,
                                !.data_rows = data_rows, !.file_path = file_path,
                                !.cell_colors = cell_colors, !.outcome = "ok",
                                !.steps = <<"write_excel">>]
        /\ UNCHANGED <<singletons, heap, threads>>

\* A call of ExcelModel.from_excel on a file.
FromExcelFile ==
    \E cls \in Classes, file_path \in Paths, arg \in DynamicColumnsArgs :
        LET r == get_singleton(singletons, heap, cls, "reader")
        IN  /\ out = Blank
            /\ singletons' = r.cache
            /\ heap' = r.heap
            /\ out' = [from_excel(cls, fs[file_path], arg[1], arg[2], <<>>)
                         EXCEPT !.source = "path", !.file_path = file_path,
                                !.via = r.instance, !.found = r.found]
            /\ UNCHANGED <<fs, threads>>

\* A call of ExcelModel.from_excel on the bytes the last write returned.
FromExcelBytes ==
    \E cls \in Classes, arg \in DynamicColumnsArgs :
        LET r == get_singleton(singletons, heap, cls, "reader")
        IN  /\ out.returned.kind = "bytes"
            /\ singletons' = r.cache
            /\ heap' = r.heap
            /\ out' = [from_excel(cls, out.returned.wb, arg[1], arg[2], out.instances)
                         EXCEPT !.source = "bytes", !.via = r.instance, !.found = r.found]
            /\ UNCHANGED <<fs, threads>>

\* The caller drops the result it holds.
Discard ==
    /\ out # Blank
    /\ out' = Blank
    /\ UNCHANGED <<fs, singletons, heap, threads>>

\* The record engine: exports, and reads of the bytes an export returned.
Next == Write \/ ToExcelUnbound \/ ToExcel \/ FromExcelBytes \/ Discard

Spec == Init /\ [][Next]_vars

\* The grid readers and writers of excel_io on files.
NextIO == WriteExcel \/ FromExcelFile \/ Discard

SpecIO == Init /\ [][NextIO]_vars

\* Threads inside cls._get_reader() / cls._get_writer(), one step per
\* statement; the interpreter may switch threads between any two of them, and
\* models.py takes no lock.
\* A thread calls _get_reader or _get_writer of a class (lines 41, 51).
TCall(t) ==
    \E cls \in Classes, kind \in Kinds :
        /\ threads[t].pc = "idle"
        /\ threads' = [threads EXCEPT ![t] = [Idle EXCEPT !.pc = "line34", !.cls = cls,
                                                          !.kind = kind]]
        /\ UNCHANGED <<fs, singletons, heap, out>>

\* if cls not in _singletons (line 34).
TTestClass(t) ==
    /\ threads[t].pc = "line34"
    /\ threads' = [threads EXCEPT ![t].pc =
                      IF threads[t].cls \notin DOMAIN singletons THEN "line35" ELSE "line36"]
    /\ UNCHANGED <<fs, singletons, heap, out>>

\* _singletons[cls] = {} (line 35).
TInstallDict(t) ==
    /\ threads[t].pc = "line35"
    /\ singletons' = install_dict(singletons, heap, threads[t].cls).cache
    /\ heap' = install_dict(singletons, heap, threads[t].cls).heap
    /\ threads' = [threads EXCEPT ![t].pc = "line36"]
    /\ UNCHANGED <<fs, out>>

\* return _singletons[cls] (line 36), bound to the local singletons (41, 51).
TFetchDict(t) ==
    /\ threads[t].pc = "line36"
    /\ threads' = [threads EXCEPT ![t].pc = "test", ![t].dict = singletons[threads[t].cls]]
    /\ UNCHANGED <<fs, singletons, heap, out>>

\* if "reader" not in singletons / if "writer" not in singletons (42, 52).
TTestKind(t) ==
    /\ threads[t].pc = "test"
    /\ threads' = [threads EXCEPT ![t].pc =
                      IF threads[t].kind \notin DOMAIN heap.dicts[threads[t].dict]
                      THEN "create" ELSE "return"]
    /\ UNCHANGED <<fs, singletons, heap, out>>

\* singletons["reader"] = ExcelReader(...) / singletons["writer"] =
\* ExcelWriter(...) (43-45, 53-60).
TCreate(t) ==
    /\ threads[t].pc = "create"
    /\ heap' = create_instance(heap, threads[t].dict, threads[t].cls, threads[t].kind)
    /\ threads' = [threads EXCEPT ![t].pc = "return"]
    /\ UNCHANGED <<fs, singletons, out>>

\* return singletons["reader"] / singletons["writer"] (46, 61).
TReturn(t) ==
    /\ threads[t].pc = "return"
    /\ threads' = [threads EXCEPT ![t].pc = "done",
                                   ![t].got = heap.dicts[threads[t].dict][threads[t].kind]]
    /\ UNCHANGED <<fs, singletons, heap, out>>

NextThreads ==
    \E t \in Threads :
        \/ TCall(t) \/ TTestClass(t) \/ TInstallDict(t) \/ TFetchDict(t)
        \/ TTestKind(t) \/ TCreate(t) \/ TReturn(t)

SpecThreads == Init /\ [][NextThreads]_vars

\* ------------------------------------------------------------- properties
\* The caller holds the result of a call that entered ExcelWriter.write:
\* a direct call, or a to_excel call whose arguments fitted the signature.
IsWrite ==
    \/ out.op = "write"
    \/ out.op = "to_excel" /\ (out.outcome # "TypeError" \/ out.steps # <<>>)

\* The call built a layout.
LayoutBuilt == out.op \in {"write", "to_excel"} /\ Len(out.steps) >= 3

\* The dynamic keys the instances of the batch carry.
ObservedKeys(instances) == UNION {DOMAIN instances[i].dyn : i \in DOMAIN instances}

StaticHeaderSet(cls) == {get_column_fields(cls)[i].header : i \in DOMAIN get_column_fields(cls)}

\* A dynamic key of the batch is the header of a static column.
HeaderCollision(cls, instances) == ObservedKeys(instances) \cap StaticHeaderSet(cls) # {}

\* C1: the layout a write call builds for a non-empty batch has exactly the
\* static headers and the observed dynamic keys as its headers, and gives them
\* the positions 1..N, N the number of distinct headers, none repeated or
\* skipped.
C1_LayoutContiguous ==
    (out.op \in {"write", "to_excel"} /\ out.instances # <<>> /\ LayoutBuilt) =>
        /\ DOMAIN out.headers = StaticHeaderSet(out.cls) \cup ObservedKeys(out.instances)
        /\ Range(out.headers) = 1..Cardinality(DOMAIN out.headers)

\* The number of observed keys that sort before k.
KeysBefore(k, keys) == Cardinality({x \in keys : StrLt(x, k)})

\* C2: with no order hints the layout is the static headers in declaration
\* order (positions 1..S) followed by the observed dynamic keys in ascending
\* lexicographic order (positions S+1..).
C2_DefaultOrder ==
    (LayoutBuilt /\ out.kwargs = {}) =>
        LET cf == get_column_fields(out.cls)
            keys == ObservedKeys(out.instances)
        IN  /\ \A i \in DOMAIN cf : out.headers[cf[i].header] = i
            /\ \A k \in keys : out.headers[k] = Len(cf) + KeysBefore(k, keys) + 1

\* A to_excel call on a non-empty batch that passes rank hints.
HintedCall ==
    /\ out.op = "to_excel"
    /\ out.instances # <<>>
    /\ out.file_path \in Paths
    /\ out.kwargs # {}
    /\ out.kwargs \subseteq {"column_order", "dynamic_column_order"}

\* The entries of the call and the rank the hints give each.
Entries == StaticHeaderSet(out.cls) \cup ObservedKeys(out.instances)

Ranked == {h \in Entries : h \in DOMAIN out.column_order
                              \/ h \in DOMAIN out.dynamic_column_order}

RankOf(h) == IF h \in DOMAIN out.column_order THEN out.column_order[h]
             ELSE out.dynamic_column_order[h]

\* (rank, header) of a sorts before (rank, header) of b.
RankLt(a, b) == RankOf(a) < RankOf(b) \/ (RankOf(a) = RankOf(b) /\ StrLt(a, b))

\* C3: the entries given a rank, static or dynamic, are laid out in ascending
\* order of (rank, header).
C3_RankedOrder ==
    HintedCall =>
        /\ LayoutBuilt
        /\ \A a \in Ranked, b \in Ranked :
              RankLt(a, b) => /\ a \in DOMAIN out.headers
                              /\ b \in DOMAIN out.headers
                              /\ out.headers[a] < out.headers[b]

\* C4: when only some headers have a rank, every ranked entry precedes every
\* unranked one, and the unranked static headers keep their declaration order.
C4_RankedBeforeUnranked ==
    (HintedCall /\ Ranked # Entries) =>
        LET cf == get_column_fields(out.cls)
        IN  /\ LayoutBuilt
            /\ Entries \subseteq DOMAIN out.headers
            /\ \A a \in Ranked, b \in Entries \ Ranked : out.headers[a] < out.headers[b]
            /\ \A i \in DOMAIN cf, j \in DOMAIN cf :
                  (i < j /\ cf[i].header \notin Ranked /\ cf[j].header \notin Ranked)
                      => out.headers[cf[i].header] < out.headers[cf[j].header]

\* Two hint bundles rank the same headers and order them alike.
SameOrdering(kw) ==
    /\ kw.kwargs = out.kwargs
    /\ DOMAIN kw.column_order = DOMAIN out.column_order
    /\ DOMAIN kw.dynamic_column_order = DOMAIN out.dynamic_column_order
    /\ \A a \in Ranked, b \in Ranked :
          RankLt(a, b) <=>
              LET r(h) == IF h \in DOMAIN kw.column_order THEN kw.column_order[h]
                          ELSE kw.dynamic_column_order[h]
              IN  r(a) < r(b) \/ (r(a) = r(b) /\ StrLt(a, b))

\* C5: rank values are only hints: the call yields a layout with the positions
\* 1..N, and every other rank assignment that orders the same headers alike
\* yields the same layout.
C5_GapsCollapse ==
    HintedCall =>
        /\ LayoutBuilt
        /\ Range(out.headers) = 1..Cardinality(Entries)
        /\ \A kw \in KwargBundles, hash \in HashOrders :
              SameOrdering(kw) =>
                  to_excel(out.cls, out.instances, TRUE, out.file_path, kw.kwargs,
                           kw.column_order, kw.dynamic_column_order, hash).headers
                      = out.headers

\* The reorderings of a list of n instances.
Reorderings(n) == {p \in [1..n -> 1..n] : Range(p) = 1..n}

\* C6: the layout is a function of the static headers and of the set of
\* dynamic keys alone: whatever order the instances contribute their keys in
\* and whatever order the key set is iterated in, the same layout results.
C6_LayoutDeterministic ==
    LayoutBuilt =>
        \A p \in Reorderings(Len(out.instances)), hash \in HashOrders :
            build_headers(get_column_fields(out.cls), get_dynamic_column_field(out.cls),
                          [i \in DOMAIN out.instances |-> out.instances[p[i]]], hash)
                = out.headers

\* A layout was built from keys that the instances contributed out of
\* lexicographic order.
C6_Witness ==
    /\ LayoutBuilt
    /\ Len(out.instances) >= 2
    /\ "Zebra " \in DOMAIN out.instances[1].dyn
    /\ "Alpha" \in DOMAIN out.instances[2].dyn
    /\ out.headers["Alpha"] < out.headers["Zebra "]

\* C7: when a dynamic key of the batch equals a static header, the call fails
\* with a configuration error: it builds no layout and no rows and returns or
\* writes nothing.
C7_CollisionRejected ==
    (IsWrite /\ usage_error(out.instances, out.file_path, out.return_bytes) = None
       /\ HeaderCollision(out.cls, out.instances)) =>
        /\ out.outcome = "ConfigurationError"
        /\ out.headers = EmptyMap
        /\ out.data_rows = <<>>
        /\ out.returned = NoBytes

\* C8: a write call given an empty instance list, or a non-empty one with no
\* destination and no bytes output, raises the usage error before any stage
\* runs: no schema is extracted, no layout or row is built, no grid writer is
\* invoked, nothing is returned and no file exists.
C8_UsageErrorFirst ==
    (IsWrite /\ (out.instances = <<>>
                   \/ (~out.return_bytes /\ out.file_path \in {None, ""}))) =>
        /\ out.outcome = "ValueError"
        /\ out.error = IF out.instances = <<>>
                       THEN "Cannot export empty list of instances"
                       ELSE "file_path is required when return_bytes=False"
        /\ out.steps = <<>>
        /\ out.headers = EmptyMap
        /\ out.data_rows = <<>>
        /\ out.returned = NoBytes
        /\ \A p \in Paths : ~fs[p].exists

\* A write call on a non-empty batch with neither a destination nor bytes
\* output ended in the usage error.
C8_Witness ==
    /\ out.op = "write"
    /\ out.instances # <<>>
    /\ ~out.return_bytes
    /\ out.file_path = None
    /\ out.outcome = "ValueError"

\* C9: to_excel with return_bytes=True and no path returns the workbook as
\* bytes and writes no file; to_excel with a path writes the file and returns
\* None; a successful export invokes exactly one grid writer, once.
C9_BytesOrFile ==
    (out.op = "to_excel" /\ out.instances # <<>>) =>
        /\ (out.kwargs = {"return_bytes"} /\ out.file_path = None) =>
              /\ out.outcome = "ok"
              /\ out.returned.kind = "bytes"
              /\ out.steps[Len(out.steps)] = "write_excel_to_bytes"
              /\ \A p \in Paths : ~fs[p].exists
        /\ (out.kwargs = {} /\ out.file_path \in Paths) =>
              /\ out.outcome = "ok"
              /\ out.returned = NoBytes
              /\ out.steps[Len(out.steps)] = "write_excel"
              /\ fs[out.file_path].exists

\* C10: the bytes of a batch of N records, read back by the same type with
\* dynamic collection enabled, give N records in the same order, each equal to
\* its original on every static field and on every dynamic key the original
\* carried.
C10_RoundTrip ==
    (out.op = "from_excel" /\ out.source = "bytes" /\ out.dynamic_columns
       /\ out.origin # <<>> /\ out.origin[1].cls = out.cls) =>
        /\ out.outcome = "ok"
        /\ Len(out.records) = Len(out.origin)
        /\ \A i \in DOMAIN out.origin :
              /\ out.records[i].vals = out.origin[i].vals
              /\ \A k \in DOMAIN out.origin[i].dyn :
                    /\ k \in DOMAIN out.records[i].dyn
                    /\ out.records[i].dyn[k] = out.origin[i].dyn[k]

\* The caller holds the result of a read that had at least one data row to
\* process.
ReadRows ==
    /\ out.op = "from_excel"
    /\ out.outcome # "FileNotFoundError"
    /\ out.data_rows # <<>>

\* The static columns of the type read whose header the grid lacks.
AbsentColumns(required) ==
    {i \in DOMAIN get_column_fields(out.cls) :
        /\ get_column_fields(out.cls)[i].required = required
        /\ get_column_fields(out.cls)[i].header \notin DOMAIN out.headers}

RowRejected(i) ==
    \E c \in DOMAIN get_column_fields(out.cls) :
        LET col == get_column_fields(out.cls)[c]
        IN  /\ ~col.nullable
            /\ \/ col.header \notin DOMAIN out.headers /\ col.default = None
               \/ col.header \in DOMAIN out.headers
                    /\ Get(out.data_rows[i], out.headers[col.header]) = None

\* C12: a read is all-or-nothing. When a row fails (a required column is
\* lacking, or construction rejects the row) the read ends in that error and
\* hands back no record, whatever the rows before it gave; a read that
\* returns has one record per row read, record i holding the values of row i.
C12_AllOrNothing ==
    (out.op = "from_excel" /\ out.outcome # "FileNotFoundError") =>
        LET cf == get_column_fields(out.cls)
        IN  /\ out.outcome # "ok" => out.records = <<>>
            /\ (out.data_rows # <<>> /\ AbsentColumns(TRUE) # {}) =>
                  out.outcome = "ColumnNotFoundError"
            /\ (AbsentColumns(TRUE) = {} /\ \E i \in DOMAIN out.data_rows : RowRejected(i)) =>
                  out.outcome = "ValidationError"
            /\ out.outcome = "ok" =>
                  /\ Len(out.records) = Len(out.data_rows)
                  /\ \A i \in DOMAIN out.records, c \in DOMAIN cf :
                        cf[c].header \in DOMAIN out.headers =>
                            out.records[i].vals[cf[c].name]
                                = Get(out.data_rows[i], out.headers[cf[c].header])

\* A read failed on its second row after a first row that construction
\* accepts.
C12_Witness ==
    /\ out.op = "from_excel"
    /\ out.outcome = "ValidationError"
    /\ Len(out.data_rows) = 2
    /\ ~RowRejected(1)
    /\ RowRejected(2)
    /\ out.records = <<>>

\* The headers of the grid read that no static column of the type claims.
Unclaimed == DOMAIN out.headers \ StaticHeaderSet(out.cls)

\* C13: on a read that returns, every record's dynamic mapping holds exactly
\* the unclaimed headers, each with the row's value, when the caller enabled
\* dynamic collection and the type declares a dynamic column; otherwise it is
\* empty. A caller that leaves dynamic_columns out gets no unclaimed column in
\* any record, and unclaimed headers alone never fail a read.
C13_DynamicCollection ==
    (out.op = "from_excel" /\ out.outcome # "FileNotFoundError") =>
        /\ ~out.passed => ~out.dynamic_columns
        /\ (AbsentColumns(TRUE) = {} /\ \A i \in DOMAIN out.data_rows : ~RowRejected(i)) =>
              out.outcome = "ok"
        /\ out.outcome = "ok" =>
              \A i \in DOMAIN out.records :
                  IF out.dynamic_columns /\ get_dynamic_column_field(out.cls) # None
                  THEN /\ DOMAIN out.records[i].dyn = Unclaimed
                       /\ \A h \in Unclaimed :
                             out.records[i].dyn[h] = Get(out.data_rows[i], out.headers[h])
                  ELSE out.records[i].dyn = EmptyMap

\* A caller that left dynamic_columns out read, as ForecastModel, a grid with
\* a column no static column claims: the records came back without it.
C13_Witness ==
    /\ out.op = "from_excel"
    /\ out.cls = "ForecastModel"
    /\ ~out.passed
    /\ "Alpha" \in Unclaimed
    /\ out.outcome = "ok"
    /\ out.records # <<>>
    /\ out.records[1].dyn = EmptyMap

\* C14: the file write_excel leaves has each header in row 1 at the column the
\* layout gives it, the value of data row i for a header in sheet row i + 1 of
\* that column, a style on exactly the data cells for which the style map has
\* an entry that is not None, and no cell outside the layout's columns and the
\* batch's rows: a row value under a header the layout lacks is not written.
C14_GridPlacement ==
    out.op = "write_excel" =>
        LET ws == fs[out.file_path]
            cols == Range(out.headers)
            rows == {i + 1 : i \in DOMAIN out.data_rows}
        IN  /\ ws.exists
            /\ \A h \in DOMAIN out.headers : CellValue(ws, 1, out.headers[h]) = h
            /\ \A i \in DOMAIN out.data_rows, h \in DOMAIN out.headers :
                  CellValue(ws, i + 1, out.headers[h]) = Get(out.data_rows[i], h)
            /\ \A rc \in rows \X cols :
                  rc \in DOMAIN ws.styles <=> Get(out.cell_colors, rc) # None
            /\ \A rc \in DOMAIN ws.styles :
                  rc \in rows \X cols /\ ws.styles[rc] = out.cell_colors[rc]
            /\ \A rc \in DOMAIN ws.cells : rc[1] \in {1} \cup rows /\ rc[2] \in cols

\* Two rows were written under the layout Month 1, Manager 3 with a style map
\* that has a None entry for (2, 1), an entry for column 2 and one for (3, 3):
\* only (3, 3) is styled, column 2 is empty.
C14_Witness ==
    /\ out.op = "write_excel"
    /\ "Manager" \in DOMAIN out.headers
    /\ Len(out.data_rows) = 2
    /\ <<2, 2>> \in DOMAIN out.cell_colors
    /\ DOMAIN fs[out.file_path].styles = {<<3, 3>>}
    /\ CellValue(fs[out.file_path], 1, 3) = "Manager"
    /\ CellValue(fs[out.file_path], 2, 1) = "Jan"

\* The instance of kind the cache holds for cls, NoInstance when it holds none.
Cached(cache, h, cls, kind) ==
    IF cls \in DOMAIN cache /\ kind \in DOMAIN h.dicts[cache[cls]]
    THEN h.dicts[cache[cls]][kind] ELSE NoInstance

\* The kind of instance a call goes through.
KindOf(op) == IF op = "from_excel" THEN "reader" ELSE "writer"

\* One step of the cache: what it held it still holds, no second dict, reader
\* or writer was made for any type, no two types hold the same dict, and the
\* call that just returned went through the instance made on first access,
\* which is the one the cache holds.
CacheStep ==
    /\ \A cls \in DOMAIN singletons :
          cls \in DOMAIN singletons' /\ singletons'[cls] = singletons[cls]
    /\ \A cls \in Classes, kind \in Kinds :
          Cached(singletons, heap, cls, kind) # NoInstance =>
              Cached(singletons', heap', cls, kind) = Cached(singletons, heap, cls, kind)
    /\ \A cls \in Classes, kind \in Kinds : heap'.made[<<cls, kind>>] <= 1
    /\ \A d \in DOMAIN heap'.dicts : d.n = 1
    /\ \A c1 \in DOMAIN singletons', c2 \in DOMAIN singletons' :
          c1 # c2 => singletons'[c1] # singletons'[c2]
    /\ out'.via # NoInstance =>
          /\ out'.via = [cls |-> out'.cls, kind |-> KindOf(out'.op), n |-> 1]
          /\ out'.via = Cached(singletons', heap', out'.cls, KindOf(out'.op))

\* C15: over any sequence of from_excel and to_excel calls on any types, each
\* type gets at most one cached reader and one cached writer, every access
\* returns the instance made on the first access, no entry is replaced or
\* removed, and distinct types share no entry.
C15_CacheWrittenOnce == [][CacheStep]_vars

\* A from_excel call found the reader an earlier call had cached, with the
\* other type's reader and this type's writer cached as well.
C15_Witness ==
    /\ out.op = "from_excel"
    /\ out.found
    /\ out.via = [cls |-> out.cls, kind |-> "reader", n |-> 1]
    /\ DOMAIN singletons = Classes
    /\ Cached(singletons, heap, out.cls, "writer") # NoInstance

\* C16: when several threads make the first access for a type at once, one
\* dict and one instance of each kind are made for the type, and the threads
\* that asked for the same kind of the same type got the same instance, which
\* is the one the cache holds.
C16_SingleFlight ==
    /\ \A cls \in Classes, kind \in Kinds : heap.made[<<cls, kind>>] <= 1
    /\ \A d \in DOMAIN heap.dicts : d.n = 1
    /\ \A t \in Threads, u \in Threads :
          (/\ threads[t].pc = "done" /\ threads[u].pc = "done"
           /\ threads[t].cls = threads[u].cls /\ threads[t].kind = threads[u].kind) =>
              /\ threads[t].got = threads[u].got
              /\ threads[t].got = Cached(singletons, heap, threads[t].cls, threads[t].kind)

\* The write call built rows for a type that declares a dynamic column.
RowsBuilt == LayoutBuilt /\ Len(out.steps) >= 4

\* C17: every row of a batch has a slot for every dynamic key any instance of
\* the batch carries, holding None where the row's own instance lacks the
\* key; all rows of the batch have the same keys.
C17_RowsPadded ==
    (RowsBuilt /\ get_dynamic_column_field(out.cls) # None) =>
        /\ \A i \in DOMAIN out.data_rows :
              /\ ObservedKeys(out.instances) \subseteq DOMAIN out.data_rows[i]
              /\ \A k \in ObservedKeys(out.instances) \ DOMAIN out.instances[i].dyn :
                    out.data_rows[i][k] = None
        /\ \A i \in DOMAIN out.data_rows, j \in DOMAIN out.data_rows :
              DOMAIN out.data_rows[i] = DOMAIN out.data_rows[j]

\* Alpha is carried by the first instance only: the second row holds None
\* under Alpha.
C17_Witness ==
    /\ RowsBuilt
    /\ Len(out.instances) = 2
    /\ "Alpha" \in DOMAIN out.instances[1].dyn
    /\ "Alpha" \notin DOMAIN out.instances[2].dyn
    /\ out.data_rows[1]["Alpha"] = "150"
    /\ out.data_rows[2]["Alpha"] = None

\* C18: every key of every row built by a write call is a header of the
\* layout built by the same call.
C18_RowKeysInLayout ==
    RowsBuilt =>
        \A i \in DOMAIN out.data_rows : DOMAIN out.data_rows[i] \subseteq DOMAIN out.headers

\* Rows with dynamic keys were built: each key has a position in the layout.
C18_Witness ==
    /\ RowsBuilt
    /\ Len(out.data_rows) = 2
    /\ {"Alpha", "Zebra "} \subseteq DOMAIN out.data_rows[1]
    /\ {"Alpha", "Zebra "} \subseteq DOMAIN out.headers

\* The layout, the rows, the style map and the type hints of the call all
\* stand on the key set K: the layout's headers and every row's keys are the
\* static headers and K, every styled cell lies in a column of the layout and
\* a row of the batch, and the type hints are those of the typed static
\* columns and of the keys of K that have one.
BuiltFrom(K) ==
    LET cf == get_column_fields(out.cls)
        typed == {cf[i].header : i \in {j \in DOMAIN cf : cf[j].excel_type # None}}
    IN  /\ out.all_dynamic_keys = K
        /\ DOMAIN out.headers = StaticHeaderSet(out.cls) \cup K
        /\ \A i \in DOMAIN out.data_rows :
              DOMAIN out.data_rows[i] = StaticHeaderSet(out.cls) \cup K
        /\ \A rc \in DOMAIN out.cell_colors :
              rc[1] - 1 \in DOMAIN out.data_rows /\ rc[2] \in Range(out.headers)
        /\ DOMAIN out.column_types = typed \cup {k \in K : get_excel_type(k) # None}

\* The write call ran all its building stages.
AllBuilt == LayoutBuilt /\ Len(out.steps) >= 6

\* C19 as stated: one computation of the key set per write call, the union
\* over all instances, and the four structures built from it.
C19_ComputedOnce ==
    (AllBuilt /\ get_dynamic_column_field(out.cls) # None) =>
        /\ Len(out.collects) = 1
        /\ out.collects[1] = ObservedKeys(out.instances)
        /\ BuiltFrom(ObservedKeys(out.instances))

\* C19: a write call on a type with a dynamic column computes the key set
\* three times (in _build_headers, in _build_data_rows and in write), each
\* time as the union over all instances of the batch, so the three sets are
\* equal and the layout, the rows, the style map and the type hints agree on
\* the dynamic keys; a type without a dynamic column computes none.
C19_KeySetAgrees ==
    AllBuilt =>
        IF get_dynamic_column_field(out.cls) # None
        THEN /\ Len(out.collects) = 3
             /\ \A c \in DOMAIN out.collects : out.collects[c] = ObservedKeys(out.instances)
             /\ BuiltFrom(ObservedKeys(out.instances))
        ELSE out.collects = <<>> /\ BuiltFrom({})

\* A batch of two instances with different keys: every structure has both.
C19_Witness ==
    /\ AllBuilt
    /\ Len(out.instances) = 2
    /\ DOMAIN out.instances[1].dyn = {"Zebra "}
    /\ DOMAIN out.instances[2].dyn = {"Alpha"}
    /\ Len(out.collects) = 3
    /\ out.all_dynamic_keys = {"Alpha", "Zebra "}
    /\ "Alpha" \in DOMAIN out.column_types

\* C20: a write builds one row per instance, row i from instance i: it holds
\* the instance's value under each static header no dynamic key of the batch
\* replaces and the instance's value under each dynamic key it carries; the
\* workbook returned as bytes has row i in sheet row i + 1.
C20_RowPerInstance ==
    RowsBuilt =>
        LET cf == get_column_fields(out.cls)
        IN  /\ Len(out.data_rows) = Len(out.instances)
            /\ \A i \in DOMAIN out.instances :
                  /\ \A c \in DOMAIN cf :
                        cf[c].header \notin ObservedKeys(out.instances) =>
                            out.data_rows[i][cf[c].header] = out.instances[i].vals[cf[c].name]
                  /\ \A k \in DOMAIN out.instances[i].dyn :
                        out.data_rows[i][k] = out.instances[i].dyn[k]
                  /\ out.returned.kind = "bytes" =>
                        \A h \in DOMAIN out.headers :
                            CellValue(out.returned.wb, i + 1, out.headers[h])
                                = Get(out.data_rows[i], h)

\* Two different instances were written to bytes: the rows differ as the
\* instances do, in their order.
C20_Witness ==
    /\ RowsBuilt
    /\ out.returned.kind = "bytes"
    /\ Len(out.instances) = 2
    /\ out.cls = "NoteModel"
    /\ out.instances[1].vals.note = "memo"
    /\ out.instances[2].vals.note = None
    /\ CellValue(out.returned.wb, 2, 1) = "memo"
    /\ CellValue(out.returned.wb, 3, 1) = None

\* The sheet rows from the start row on that hold a value in some cell.
NonBlankRows(ws) ==
    {r \in 2..max_row(ws) : \E c \in 1..max_column(ws) : CellValue(ws, r, c) # None}

\* The i-th of a set of row numbers, in ascending order.
NthRow(S, i) == CHOOSE r \in S : Cardinality({x \in S : x < r}) = i - 1

\* C21: the rows read from a sheet are, in sheet order, one mapping per sheet
\* row that holds a value: as many as the sheet has non-blank rows from row 2
\* on, none of them empty, the i-th holding exactly the positions and values
\* of the non-empty cells of the i-th non-blank row.
C21_BlankRowsSkipped ==
    (out.op = "from_excel" /\ out.source = "path" /\ out.outcome # "FileNotFoundError") =>
        LET ws == fs[out.file_path]
        IN  /\ Len(out.data_rows) = Cardinality(NonBlankRows(ws))
            /\ \A i \in DOMAIN out.data_rows :
                  /\ out.data_rows[i] # EmptyMap
                  /\ DOMAIN out.data_rows[i]
                        = {c \in 1..max_column(ws) :
                              CellValue(ws, NthRow(NonBlankRows(ws), i), c) # None}
                  /\ \A c \in DOMAIN out.data_rows[i] :
                        out.data_rows[i][c] = CellValue(ws, NthRow(NonBlankRows(ws), i), c)

\* A sheet whose row 2 is blank and whose row 3 holds a value was read: one
\* row came back, that of sheet row 3.
C21_Witness ==
    /\ out.op = "from_excel"
    /\ out.source = "path"
    /\ NonBlankRows(fs[out.file_path]) = {3}
    /\ Len(out.data_rows) = 1
    /\ out.data_rows[1] = [c \in {1} |-> "memo"]

====
